---- MODULE Spec2Model ----
(***************************************************************************)
(* A model of tokenizers-converter: the command line (__main__.py,         *)
(* commands/*.py) and convert_tokenizer (commands/convert.py) driving      *)
(* BaichuanConverter / Ernie45Converter (tokenizers/*.py).                 *)
(*                                                                         *)
(* The original (slow) tokenizer, the SentencePiece proto, the merge       *)
(* extractor and the tokenizers engine are external collaborators.  The    *)
(* model keeps what the repository's code reads from them and what it      *)
(* hands to them:                                                          *)
(*   proto.pieces            a list of [piece, score, type]                *)
(*   original_tokenizer      the answers of the read-only adapter          *)
(*   engine                  the Tokenizer object being configured         *)
(* Python lists are sequences; list index i is sequence position i + 1.    *)
(* Scores are floats in the code; the model uses integers for them, 0      *)
(* standing for 0.0.  Python's None is the string None below.              *)
(***************************************************************************)
EXTENDS Integers, Sequences, FiniteSets, TLC

VARIABLES
    pc,                 \* position inside the invocation
    argv,               \* the command line, or the arguments of a direct call
    converter_type,     \* argument of convert_tokenizer (--type)
    proto,              \* the SentencePiece model: [pieces, unk_piece]
    original_tokenizer, \* the adapter's answers (read-only)
    special_tokens,     \* BaichuanConverter.special_tokens (set by __init__)
    vocab_scores,       \* local of tokenizer(): the list vocab() returned
    engine,             \* the Tokenizer object under construction
    smp_added_tokens,   \* local of tokenizer(): the added-token candidates
    added_arg,          \* the list handed to tokenizer.add_tokens, with ids
    attach_log,         \* history: the stages set on the engine, in order
    returned,           \* TRUE once converted() has returned the engine
    merges,             \* local of tokenizer(): the extractor's merge list
    converted_tokenizer,\* the PreTrainedTokenizerFast wrapping the engine
    output_dir,         \* "absent" | "created" | "partial" | "saved"
    artifact,           \* what save_pretrained wrote, once it has returned
    exit_code,          \* None while running, else the process exit code
    ext,                \* history: external call |-> whether it succeeded
    stdout,             \* the lines printed that the model keeps
    processed,          \* the last output of the engine's post-processor
    run,                \* 0: a single run; 1, 2: first, second of two runs
    first_run           \* the result of the first of two runs

vars == << pc, argv, converter_type, proto, original_tokenizer,
           special_tokens, vocab_scores, engine, smp_added_tokens, added_arg,
           attach_log, returned, merges, converted_tokenizer, output_dir,
           artifact, exit_code, ext, stdout, processed, run, first_run >>

None == "None"

\* ------------------------------------------------------------------ bounds

\* The longest piece list the model enumerates.
MaxPieces == 5

\* The longest list of --test-texts the model enumerates.
MaxTexts == 2

\* ------------------------------------------------------- program constants

\* baichuan_converter.py:43  `if i < 4:  # <pad>, <s>, </s>, <unk>`
FirstFew == 4
\* baichuan_converter.py:80  `p.type == 3` (control)
TypeControl == 3
\* baichuan_converter.py:82  `p.type in [3, 4]` (4: user defined symbol)
TypeUserDefined == 4

\* convert.py:17-22
AvailableConverters == {"ernie4.5", "baichuan"}

\* ------------------------------------------------------------ input domain

\* The text of proto piece i (list index i) is PieceText[i + 1]: a loadable
\* SentencePiece model has pairwise distinct pieces.
PieceText == << "<unk>", "<s>", "</s>", "<0x00>", "a", "b", "c", "d" >>

\* A token the adapter knows that is no piece of the proto.
ExtraTok == "<pad>"

PieceIdx(n) == 0 .. (n - 1)

Tok(n) == { PieceText[i + 1] : i \in PieceIdx(n) } \cup { ExtraTok }

\* proto piece types: 1 normal, 3 control, 4 user defined
PieceTypes == { 1, TypeControl, TypeUserDefined }

\* Source scores: 0 stands for 0.0, -1 for any other score.
ScoreVals == { 0, -1 }

PieceCounts == (MaxPieces - 2) .. MaxPieces

Identity(n) == [ k \in 1 .. n |-> PieceText[k] ]

\* The adapter's id-to-token answers: the proto's own pieces, or the proto's
\* pieces with one index overwritten (by a token or by None, the adapter's
\* answer for an id it has no token for), or with two indices swapped
\* ("Baichuan tokenizer remaps the first few tokens").
Remaps(n) ==
    { Identity(n) }
    \cup { [ Identity(n) EXCEPT ![k] = t ] :
             k \in 1 .. n, t \in Tok(n) \cup { None } }
    \cup { [ Identity(n) EXCEPT ![k] = PieceText[l], ![l] = PieceText[k] ] :
             k \in 1 .. n, l \in 1 .. n }

\* original_tokenizer.encode(token) is read through len() only: the number of
\* ids it yields.  At most one token re-encodes to 0 or to 2 ids.
EncodeLens(n) ==
    { [ t \in Tok(n) |-> 1 ] }
    \cup { [ t \in Tok(n) |-> IF t = b THEN c ELSE 1 ] :
             b \in Tok(n), c \in { 0, 2 } }

\* Piece types with at most one control and one user-defined piece.
TypeMaps(n) ==
    { ty \in [ 1 .. n -> PieceTypes ] :
        /\ Cardinality({ k \in 1 .. n : ty[k] = TypeControl }) <= 1
        /\ Cardinality({ k \in 1 .. n : ty[k] = TypeUserDefined }) <= 1 }

Pieces(n, sc, ty) ==
    [ k \in 1 .. n |->
        [ piece |-> PieceText[k], score |-> sc[k], type |-> ty[k] ] ]

\* add_prefix_space and legacy are the two attributes transformers'
\* _get_prepend_scheme reads off the adapter; Baichuan sources have neither
\* attribute set.
Adapter(i2t, bos, eos, unk, pad, sep, cls, mask, addl, enc, first) ==
    [ id_to_token |-> i2t,
      add_prefix_space |-> FALSE, legacy |-> TRUE,
      bos_token |-> bos, eos_token |-> eos, unk_token |-> unk,
      pad_token |-> pad, sep_token |-> sep, cls_token |-> cls,
      mask_token |-> mask,
      additional_special_tokens |-> addl,
      encode_len |-> enc,
      first_match |-> first,
      vocab_size |-> Len(i2t) ]

NoEngine ==
    [ exists |-> FALSE, vocab |-> [ w \in {} |-> 0 ], merges |-> None,
      unk_token |-> None,
      fuse_unk |-> FALSE, byte_fallback |-> FALSE,
      normalizer |-> [ kind |-> None ],
      pre_tokenizer |-> [ kind |-> None ],
      decoder |-> << >>,
      post_processor |-> [ kind |-> None ],
      added_tokens |-> << >> ]

\* ------------------------------------------------ the adapter (read-only)

\* original_tokenizer.convert_ids_to_tokens(i)
ConvertIdsToTokens(ot, i) == ot.id_to_token[i + 1]

\* len(original_tokenizer.encode(token))
EncodeLen(ot, token) == ot.encode_len[token]

SetMin(S) == CHOOSE x \in S : \A y \in S : x <= y
SetMax(S) == CHOOSE x \in S : \A y \in S : y <= x

\* original_tokenizer.<name>_token_id: an id the adapter maps back to the
\* token (the lowest or the highest one, as the adapter resolves it); -1
\* stands for None: a null token, or a token the adapter has no id below
\* its vocabulary size for.
OriginalTokenId(ot, token) ==
    LET ids == { i \in 0 .. (Len(ot.id_to_token) - 1) :
                   ot.id_to_token[i + 1] = token }
    IN  IF token = None \/ ids = {} THEN -1
        ELSE IF ot.first_match THEN SetMin(ids) ELSE SetMax(ids)

\* ------------------------------------------- BaichuanConverter.__init__

\* special_tokens = {bos, eos, unk, pad}; update(additional) when truthy;
\* then the None values are removed.
SeqRange(s) == { s[k] : k \in 1 .. Len(s) }

InitSpecialTokens(ot) ==
    LET named == { ot.bos_token, ot.eos_token, ot.unk_token, ot.pad_token }
        withAdditional ==
            IF ot.additional_special_tokens # << >>
            THEN named \cup SeqRange(ot.additional_special_tokens)
            ELSE named
    IN  { token \in withAdditional : token # None }

\* ---------------------------------------------- BaichuanConverter.vocab

\* Mutant of VocabEntry: the special-token test is off by one (i <= 4).
VocabEntryOffByOne(ot, pieces, i) ==
    LET original_token == ConvertIdsToTokens(ot, i)
    IN  IF i < Len(pieces)
        THEN IF i <= FirstFew
             THEN << original_token, 0 >>
             ELSE << original_token, pieces[i + 1].score >>
        ELSE << original_token, 0 >>

\* One pass of the loop body for list index i, appended to the list built
\* so far.
VocabEntry(ot, pieces, i) ==
    LET original_token == ConvertIdsToTokens(ot, i)
    IN  IF i < Len(pieces)
        THEN IF i < FirstFew
             THEN << original_token, 0 >>
             ELSE << original_token, pieces[i + 1].score >>
        ELSE << original_token, 0 >>

RECURSIVE VocabLoop(_, _, _, _)
VocabLoop(ot, pieces, i, acc) ==
    IF i >= Len(pieces) THEN acc
    ELSE VocabLoop(ot, pieces, i + 1, Append(acc, VocabEntry(ot, pieces, i)))

BaichuanVocab(ot, pieces) == VocabLoop(ot, pieces, 0, << >>)

\* The vocabulary the inherited SpmConverter.vocab builds for variant A:
\* the proto's own pieces with their scores.
InheritedVocab(pieces) ==
    [ k \in 1 .. Len(pieces) |-> << pieces[k].piece, pieces[k].score >> ]

\* -------------------------------------------- BaichuanConverter.tokenizer

\* bpe_vocab = {word: i for i, (word, score) in enumerate(vocab_scores)}
\* A later index overwrites an earlier one with the same word.
BpeVocab(vs) ==
    [ word \in { vs[k][1] : k \in 1 .. Len(vs) } |->
        SetMax({ k - 1 : k \in { j \in 1 .. Len(vs) : vs[j][1] = word } }) ]

\* Mutant of IsCandidate: user-defined symbols are not collected.
IsCandidateControlOnly(p, st) == p.type = TypeControl \/ p.piece \in st

\* Mutant of IsSpecial: user-defined symbols are tagged special too.
IsSpecialAnyTyped(p, st) ==
    p.type \in { TypeControl, TypeUserDefined } \/ p.piece \in st

\* smp_added_tokens: (id, piece, special) for every piece that is control or
\* user defined or whose text is in special_tokens, in piece order.
IsCandidate(p, st) ==
    p.type \in { TypeControl, TypeUserDefined } \/ p.piece \in st

IsSpecial(p, st) == p.type = TypeControl \/ p.piece \in st

RECURSIVE SmpAddedTokens(_, _, _)
SmpAddedTokens(pieces, st, id) ==
    IF id >= Len(pieces) THEN << >>
    ELSE LET p == pieces[id + 1]
             rest == SmpAddedTokens(pieces, st, id + 1)
         IN  IF IsCandidate(p, st)
             THEN << [ id |-> id, token |-> p.piece,
                       special |-> IsSpecial(p, st) ] >>
                  \o rest
             ELSE rest

\* bad_added_tokens: the tokens whose re-encoding is not exactly one id.
BadAddedTokens(ot, cands) ==
    { cands[k].token : k \in { j \in 1 .. Len(cands) :
                                 EncodeLen(ot, cands[j].token) # 1 } }

\* sorted(smp_added_tokens, key=lambda x: x[0]): a stable insertion sort.
RECURSIVE InsertById(_, _)
InsertById(sorted, x) ==
    IF sorted = << >> THEN << x >>
    ELSE IF Head(sorted).id <= x.id
         THEN << Head(sorted) >> \o InsertById(Tail(sorted), x)
         ELSE << x >> \o sorted

RECURSIVE SortedById(_)
SortedById(s) ==
    IF s = << >> THEN << >>
    ELSE InsertById(SortedById(SubSeq(s, 1, Len(s) - 1)), s[Len(s)])

\* The argument of tokenizer.add_tokens: AddedToken(token, normalized=True,
\* special=special) for the sorted candidates not in bad_added_tokens.  The
\* piece id is kept beside each AddedToken.
RECURSIVE KeepGood(_, _)
KeepGood(s, bad) ==
    IF s = << >> THEN << >>
    ELSE IF Head(s).token \notin bad
         THEN << [ id |-> Head(s).id, content |-> Head(s).token,
                   normalized |-> TRUE, special |-> Head(s).special ] >>
              \o KeepGood(Tail(s), bad)
         ELSE KeepGood(Tail(s), bad)

AddTokensArg(ot, cands) ==
    KeepGood(SortedById(cands), BadAddedTokens(ot, cands))

\* ------------------------------------------------------- pipeline stages

\* BaichuanConverter.normalizer / Ernie45Converter.normalizer
BaichuanNormalizer == [ kind |-> "Replace", pattern |-> " ", content |-> "_" ]
ErnieNormalizer == [ kind |-> None ]

\* transformers' _get_prepend_scheme(add_prefix_space, original_tokenizer):
\* "always" when the flag is set ("first" for a non-legacy adapter), else
\* "never".
GetPrependScheme(add_prefix_space, ot) ==
    IF add_prefix_space
    THEN (IF ot.legacy THEN "always" ELSE "first")
    ELSE "never"

\* BaichuanConverter.pre_tokenizer / Ernie45Converter.pre_tokenizer
BaichuanPreTokenizer == [ kind |-> None ]
ErniePreTokenizer(replacement, add_prefix_space, ot) ==
    [ kind |-> "Metaspace", replacement |-> replacement,
      prepend_scheme |-> GetPrependScheme(add_prefix_space, ot),
      split |-> FALSE ]

\* BaichuanConverter.decoder / Ernie45Converter.decoder
\* A decoder stage is [kind, pattern, content, left]: pattern and content
\* are the arguments of Replace, content and left those of Strip; None where
\* the stage has no such argument, and left is 0 where it has none.
Stage(kind, pattern, content, left) ==
    [ kind |-> kind, pattern |-> pattern, content |-> content, left |-> left ]

\* Mutant of BaichuanDecoder: a left-strip stage follows the three stages.
BaichuanDecoderWithStrip ==
    << Stage("Replace", "_", " ", 0),
       Stage("ByteFallback", None, None, 0),
       Stage("Fuse", None, None, 0),
       Stage("Strip", None, " ", 1) >>

\* baichuan_converter.py:112-118  decoders.Sequence([Replace("_", " "),
\* ByteFallback(), Fuse()])
BaichuanDecoder ==
    << Stage("Replace", "_", " ", 0),
       Stage("ByteFallback", None, None, 0),
       Stage("Fuse", None, None, 0) >>

\* ernie4_5_converter.py:37-45
ErnieDecoder(replacement, add_prefix_space) ==
    << Stage("Replace", "_", " ", 0),
       Stage("ByteFallback", None, None, 0),
       Stage("Fuse", None, None, 0) >>
    \o (IF add_prefix_space
        THEN << Stage("Strip", None, " ", 1) >>
        ELSE << >>)

\* BaichuanConverter.post_processor / Ernie45Converter.post_processor
BaichuanPostProcessor == [ kind |-> None ]

\* Mutant of ErniePostProcessor: the templates leave the cls token out.
ErniePostProcessorNoCls(ot) ==
    [ kind |-> "TemplateProcessing",
      single |-> << ot.bos_token, "$A", ot.sep_token >>,
      pair |-> << ot.bos_token, "$A", ot.sep_token, "$B", ot.sep_token >>,
      special_tokens |->
        << << ot.bos_token, OriginalTokenId(ot, ot.bos_token) >>,
           << ot.cls_token, OriginalTokenId(ot, ot.cls_token) >>,
           << ot.sep_token, OriginalTokenId(ot, ot.sep_token) >> >> ]

\* ernie4_5_converter.py:47-64
ErniePostProcessor(ot) ==
    [ kind |-> "TemplateProcessing",
      single |-> << ot.bos_token, ot.cls_token, "$A", ot.sep_token >>,
      pair |-> << ot.bos_token, ot.cls_token, "$A", ot.sep_token,
                  "$B", ot.sep_token >>,
      special_tokens |->
        << << ot.bos_token, OriginalTokenId(ot, ot.bos_token) >>,
           << ot.cls_token, OriginalTokenId(ot, ot.cls_token) >>,
           << ot.sep_token, OriginalTokenId(ot, ot.sep_token) >> >> ]

\* handle_byte_fallback (class attribute of both converters)
HandleByteFallback == TRUE

IsBaichuan == converter_type = "baichuan"

\* ------------------------------------------------------------------- Init

NoConvertedTokenizer ==
    [ wrapped |-> FALSE, backend |-> NoEngine,
      bos_token |-> None, eos_token |-> None, unk_token |-> None,
      sep_token |-> None, pad_token |-> None, cls_token |-> None,
      mask_token |-> None ]

\* Nothing saved yet: save_pretrained writes the engine (tokenizer.json) and
\* the wrapper's configuration (tokenizer_config.json, special_tokens_map).
NoArtifact ==
    [ saved |-> FALSE, tokenizer |-> NoEngine, config |-> NoConvertedTokenizer ]

NoCalls == [ c \in {} |-> FALSE ]

NoFirstRun ==
    [ exit_code |-> -1, output_dir |-> "absent", artifact |-> NoArtifact,
      ext |-> NoCalls ]

NotProcessed ==
    [ done |-> FALSE, pair |-> FALSE, a |-> << >>, b |-> << >>, ids |-> << >> ]

\* The state of one invocation before its first step.
FreshRun ==
    /\ special_tokens = {}
    /\ vocab_scores = << >>
    /\ merges = None
    /\ engine = NoEngine
    /\ smp_added_tokens = << >>
    /\ added_arg = << >>
    /\ attach_log = << >>
    /\ returned = FALSE
    /\ converted_tokenizer = NoConvertedTokenizer
    /\ output_dir = "absent"
    /\ artifact = NoArtifact
    /\ exit_code = None
    /\ ext = NoCalls
    /\ stdout = << >>
    /\ processed = NotProcessed

Fresh ==
    /\ FreshRun
    /\ first_run = NoFirstRun

\* __main__.py:10-14
Subcommands == { "convert", "list", "validate" }

\* --vocab-size values; -1 stands for None (the option is not given).
VocabSizes == { -1, 3, 8 }

\* The command line: argv[1] (None when there is none), what the rest holds,
\* and the options of the three subcommands.  argparse takes the options
\* from left to right, so args is
\*   "ok"               nothing argparse rejects by itself, and no --help
\*   "invalid"          something argparse rejects, before any --help
\*   "help"             --help before anything argparse could reject
\*   "help_after_type"  convert only: --help after the --type option and
\*                      before anything else argparse could reject
\* The value of --type is converter_type.  entry = "call" is a direct call of
\* convert_tokenizer, without the command line.
Argv(entry, subcommand, args, detailed, basic_only, skip, vocab_size) ==
    [ entry |-> entry, subcommand |-> subcommand, args |-> args,
      detailed |-> detailed, basic_only |-> basic_only,
      skip_file_structure |-> skip, vocab_size |-> vocab_size ]

ConvertArgv == Argv("cli", "convert", "ok", FALSE, FALSE, FALSE, -1)

StartPc(a) == IF a.entry = "cli" THEN "main" ELSE "check_type"

AllNormal(n) == [ k \in 1 .. n |-> 1 ]
AllScored(n) == [ k \in 1 .. n |-> -1 ]
AllOne(n) == [ t \in Tok(n) |-> 1 ]

\* Baichuan sources that differ in the adapter's id-to-token answers and in
\* the proto's scores.
InitVocabFamily ==
    \E n \in PieceCounts :
    \E i2t \in Remaps(n), sc \in [ 1 .. n -> ScoreVals ], first \in BOOLEAN :
        /\ converter_type = "baichuan"
        /\ argv = ConvertArgv
        /\ run = 0
        /\ proto = [ pieces |-> Pieces(n, sc, AllNormal(n)),
                     unk_piece |-> "<unk>" ]
        /\ original_tokenizer =
             Adapter(i2t, "<s>", "</s>", "<unk>", None, None, None, None,
                     << >>, AllOne(n), first)

\* Baichuan sources that differ in the piece types, the adapter's special
\* tokens and the re-encoding of a piece.
InitAddedFamily ==
    \E n \in PieceCounts :
    \E ty \in TypeMaps(n), enc \in EncodeLens(n),
       bos \in { None, "<s>" }, eos \in { None, "</s>" },
       pad \in { None, ExtraTok },
       addl \in { << >>, << PieceText[n] >> } :
        /\ converter_type = "baichuan"
        /\ argv = ConvertArgv
        /\ run = 0
        /\ proto = [ pieces |-> Pieces(n, AllScored(n), ty),
                     unk_piece |-> "<unk>" ]
        /\ original_tokenizer =
             Adapter(Identity(n), bos, eos, "<unk>", pad, None, None, None,
                     addl, enc, TRUE)

\* ERNIE sources that differ in the cls and sep tokens and in the adapter's
\* prefix-space attributes.
InitErnieFamily ==
    \E n \in PieceCounts :
    \E cls \in { PieceText[n], PieceText[n - 1] },
       sep \in { PieceText[n], PieceText[n - 1] },
       aps \in BOOLEAN, legacy \in BOOLEAN :
        /\ converter_type = "ernie4.5"
        /\ argv = ConvertArgv
        /\ run = 0
        /\ proto = [ pieces |-> Pieces(n, AllScored(n), AllNormal(n)),
                     unk_piece |-> "<unk>" ]
        /\ original_tokenizer =
             [ Adapter(Identity(n), "<s>", "</s>", "<unk>", None,
                       sep, cls, None, << >>, AllOne(n), TRUE)
               EXCEPT !.add_prefix_space = aps, !.legacy = legacy ]

\* Requests that differ in the command line, on one source: no subcommand,
\* an unknown one, the three subcommands with their options, and direct
\* calls of convert_tokenizer.  A convert request is the first of two runs
\* on the same source and in the same environment.
RequestArgvs ==
    { Argv("cli", sub, "ok", FALSE, FALSE, FALSE, -1) :
        sub \in { None, "unknown" } }
    \cup { Argv("cli", "convert", args, FALSE, FALSE, FALSE, vs) :
             args \in { "ok", "invalid", "help", "help_after_type" },
             vs \in VocabSizes }
    \cup { Argv("cli", "list", args, detailed, FALSE, FALSE, -1) :
             args \in { "ok", "invalid", "help" }, detailed \in BOOLEAN }
    \cup { Argv("cli", "validate", args, FALSE, basic_only, skip, -1) :
             args \in { "ok", "invalid", "help" },
             basic_only \in BOOLEAN, skip \in BOOLEAN }
    \cup { Argv("call", "convert", "ok", FALSE, FALSE, FALSE, vs) :
             vs \in VocabSizes }

InitRequestFamily ==
    \E ct \in { "ernie4.5", "baichuan", "llama" }, a \in RequestArgvs :
        /\ converter_type = ct
        /\ argv = a
        /\ run = IF a.subcommand = "convert" THEN 1 ELSE 0
        /\ proto = [ pieces |-> Pieces(MaxPieces, AllScored(MaxPieces),
                                       AllNormal(MaxPieces)),
                     unk_piece |-> "<unk>" ]
        /\ original_tokenizer =
             Adapter(Identity(MaxPieces), "<s>", "</s>", "<unk>", None,
                     PieceText[MaxPieces], PieceText[MaxPieces - 1], None,
                     << >>, AllOne(MaxPieces), TRUE)

Init ==
    /\ Fresh
    /\ \/ InitVocabFamily
       \/ InitAddedFamily
       \/ InitErnieFamily
       \/ InitRequestFamily
    /\ pc = StartPc(argv)

\* ---------------------------------------------------------------- actions

\* The variables no step of one invocation changes.
inputs == << converter_type, proto, original_tokenizer, argv, run, first_run >>

\* The answer of an external call (TRUE: it succeeds, FALSE: it raises).
\* Every external call is made at most once per invocation; the second of
\* two runs gets the answers the first run got.
Draw(call) ==
    IF run = 2 /\ call \in DOMAIN first_run.ext
    THEN { first_run.ext[call] }
    ELSE BOOLEAN

Called(call, ok) == ext' = ext @@ (call :> ok)

\* Mutant of MainExitCode: the dispatcher catches whatever the subcommand
\* raises, SystemExit included, and exits with its own code.
MainExitCodeCatchAll(exc) == 1

\* __main__.py:31-42  an ImportError or an Exception raised by the
\* subcommand is turned into exit code 1; a SystemExit is no Exception and
\* passes through with its own code.
MainExitCode(exc) ==
    IF exc.kind = "SystemExit" THEN exc.code ELSE 1

SystemExit(code) == [ kind |-> "SystemExit", code |-> code ]

Exception(kind) == [ kind |-> kind, code |-> 0 ]

\* What an exception raised below __main__.main ends the process with; in a
\* direct call there is no dispatcher: a SystemExit ends the process with
\* its code and an uncaught exception with 1.
Raise(exc) ==
    /\ pc' = "exit"
    /\ exit_code' = IF argv.entry = "cli" THEN MainExitCode(exc)
                    ELSE IF exc.kind = "SystemExit" THEN exc.code ELSE 1

\* sys.exit(1)
Exit1 == Raise(SystemExit(1))

\* The subcommand's main returns, and so does __main__.main.
Return0 ==
    /\ pc' = "done"
    /\ exit_code' = 0

\* __main__.py:8-42  up to the call of the subcommand's main
Main ==
    /\ pc = "main"
    /\ IF argv.subcommand = None \/ argv.subcommand \notin Subcommands
       THEN /\ pc' = "exit"
            /\ exit_code' = 1
            /\ UNCHANGED ext
       ELSE \E ok \in Draw("import_module") :
              /\ Called("import_module", ok)
              /\ IF ok
                 THEN pc' = "args" /\ UNCHANGED exit_code
                 ELSE Raise(Exception("ImportError"))
    /\ UNCHANGED inputs
    /\ UNCHANGED << special_tokens, vocab_scores, engine, smp_added_tokens,
                    added_arg, attach_log, returned, merges,
                    converted_tokenizer, output_dir, artifact, stdout,
                    processed >>

\* convert.py:136-141  choices=list(get_available_converters().keys()):
\* argparse rejects the value of --type when it comes to that option.
TypeRejected ==
    argv.subcommand = "convert" /\ converter_type \notin AvailableConverters

\* parser.parse_args() of the three subcommands: argparse exits with 0 at
\* --help and with 2 at an error, whichever it comes to first; the required
\* options are checked after the last one.
ParseArgs ==
    /\ pc = "args"
    /\ IF argv.args = "help"
       THEN Raise(SystemExit(0))
       ELSE IF argv.args = "invalid" \/ TypeRejected
       THEN Raise(SystemExit(2))
       ELSE IF argv.args = "help_after_type"
       THEN Raise(SystemExit(0))
       ELSE /\ pc' = CASE argv.subcommand = "convert" -> "check_type"
                       [] argv.subcommand = "list" -> "list"
                       [] OTHER -> "validate"
            /\ UNCHANGED exit_code
    /\ UNCHANGED inputs
    /\ UNCHANGED << special_tokens, vocab_scores, engine, smp_added_tokens,
                    added_arg, attach_log, returned, merges,
                    converted_tokenizer, output_dir, artifact, stdout,
                    processed, ext >>

\* list.py:11-20  get_converter_info(): the names of its entries
ConverterInfo == { "ernie4.5" }

\* list.py:39-48  one block (detailed) or one line per entry; the model keeps
\* the name each one shows.
RECURSIVE ListLines(_, _)
ListLines(names, detailed) ==
    IF names = {} THEN << >>
    ELSE LET name == CHOOSE x \in names : TRUE
         IN  << [ line |-> IF detailed THEN "Name" ELSE "entry",
                  name |-> name ] >>
             \o ListLines(names \ { name }, detailed)

\* list.py:55-79  list_converters(detailed=args.detailed); whatever it
\* raises is turned into sys.exit(1)
ListConverters ==
    /\ pc = "list"
    /\ \E ok \in Draw("list_converters") :
         /\ Called("list_converters", ok)
         /\ IF ok
            THEN /\ stdout' = stdout \o ListLines(ConverterInfo, argv.detailed)
                 /\ Return0
            ELSE /\ Exit1
                 /\ UNCHANGED stdout
    /\ UNCHANGED inputs
    /\ UNCHANGED << special_tokens, vocab_scores, engine, smp_added_tokens,
                    added_arg, attach_log, returned, merges,
                    converted_tokenizer, output_dir, artifact, processed >>

\* validate.py:233-245  the path check, load_tokenizer and the basic stage,
\* which always returns True
ValidateLoad ==
    /\ pc = "validate"
    /\ \E exists \in Draw("path_exists") :
         IF ~exists
         THEN /\ Called("path_exists", exists)
              /\ Exit1
              /\ UNCHANGED stdout
         ELSE \E ok \in Draw("load_tokenizer") :
                /\ ext' = ext @@ ("path_exists" :> exists)
                              @@ ("load_tokenizer" :> ok)
                /\ IF ok
                   THEN /\ stdout' = Append(stdout, [ line |-> "stage",
                                                      name |-> "basic" ])
                        /\ pc' = "functionality"
                        /\ UNCHANGED exit_code
                   ELSE /\ Exit1
                        /\ UNCHANGED stdout
    /\ UNCHANGED inputs
    /\ UNCHANGED << special_tokens, vocab_scores, engine, smp_added_tokens,
                    added_arg, attach_log, returned, merges,
                    converted_tokenizer, output_dir, artifact, processed >>

\* A text is a sequence of characters.  The test texts, and what the loaded
\* tokenizer answers for one text: encode or decode raises, or decode
\* returns a text.
TestTexts == { << "a" >>, << " ", "a" >>, << "a", " ", "b" >> }

DecodedTexts == { << "a" >>, << "a", " " >>, << "a", "b" >>, << >> }

Raises == [ raises |-> TRUE, decoded |-> << >> ]

Answers == { Raises } \cup { [ raises |-> FALSE, decoded |-> d ] :
                               d \in DecodedTexts }

\* The lists of test texts with the tokenizer's answer to each one.
TextRuns ==
    UNION { [ 1 .. n -> [ text : TestTexts, answer : Answers ] ] :
              n \in 1 .. MaxTexts }

\* str.strip(): leading and trailing spaces removed
RECURSIVE LStrip(_)
LStrip(t) ==
    IF t # << >> /\ Head(t) = " " THEN LStrip(Tail(t)) ELSE t

RECURSIVE RStrip(_)
RStrip(t) ==
    IF t # << >> /\ t[Len(t)] = " "
    THEN RStrip(SubSeq(t, 1, Len(t) - 1))
    ELSE t

Strip(t) == RStrip(LStrip(t))

\* validate.py:124  decoded.strip() == text.strip()
RoundTripConsistent(text, decoded) == Strip(decoded) = Strip(text)

\* Mutant of TextFails: a text whose round trip is inconsistent fails too.
TextFailsOnMismatch(r) ==
    r.answer.raises \/ ~RoundTripConsistent(r.text, r.answer.decoded)

\* validate.py:97-133  the loop body returns False for a text only in its
\* except branch
TextFails(r) == r.answer.raises

\* validate.py:94-135  validate_tokenizer_functionality: the lines printed
\* for the texts, up to and including the first one that fails, and the
\* value returned.
RECURSIVE FunctionalityLoop(_, _, _)
FunctionalityLoop(runs, i, lines) ==
    IF i > Len(runs) THEN [ ok |-> TRUE, lines |-> lines ]
    ELSE LET r == runs[i]
             checked ==
               IF r.answer.raises
               THEN [ line |-> "error", name |-> None ]
               ELSE [ line |-> "round-trip",
                      name |-> IF RoundTripConsistent(r.text,
                                                      r.answer.decoded)
                               THEN "passed" ELSE "failed" ]
         IN  IF TextFails(r)
             THEN [ ok |-> FALSE, lines |-> Append(lines, checked) ]
             ELSE FunctionalityLoop(runs, i + 1, Append(lines, checked))

ValidateTokenizerFunctionality(runs) ==
    FunctionalityLoop(runs, 1,
                      << [ line |-> "stage", name |-> "functionality" ] >>)

\* Whether encode or decode raises for a text the loop gets to.
SomeTextRaises(runs) ==
    \E i \in 1 .. Len(runs) :
        /\ runs[i].answer.raises
        /\ \A j \in 1 .. (i - 1) : ~TextFails(runs[j])

\* validate.py:247-251  the functionality stage is skipped with
\* --basic-only; when it returns False, main exits with 1
ValidateFunctionality ==
    /\ pc = "functionality"
    /\ IF argv.basic_only
       THEN /\ pc' = "file_structure"
            /\ UNCHANGED << exit_code, ext, stdout >>
       ELSE \E runs \in TextRuns :
              LET result == ValidateTokenizerFunctionality(runs)
              IN  /\ Called("encode_decode", ~SomeTextRaises(runs))
                  /\ stdout' = stdout \o result.lines
                  /\ IF result.ok
                     THEN pc' = "file_structure" /\ UNCHANGED exit_code
                     ELSE Exit1
    /\ UNCHANGED inputs
    /\ UNCHANGED << special_tokens, vocab_scores, engine, smp_added_tokens,
                    added_arg, attach_log, returned, merges,
                    converted_tokenizer, output_dir, artifact, processed >>

\* validate.py:259  print("Validation completed, all checks passed!")
AllChecksPassed == [ line |-> "all checks passed", name |-> None ]

\* validate.py:253-263, 138-190  the file-structure stage is skipped with
\* --skip-file-structure; it returns False on a JSON file that does not parse
ValidateFileStructure ==
    /\ pc = "file_structure"
    /\ IF argv.skip_file_structure
       THEN /\ Return0
            /\ stdout' = Append(stdout, AllChecksPassed)
            /\ UNCHANGED ext
       ELSE \E ok \in Draw("json_load") :
              LET stage == [ line |-> "stage", name |-> "file_structure" ]
              IN  /\ Called("json_load", ok)
                  /\ IF ok
                     THEN /\ stdout' = stdout \o << stage, AllChecksPassed >>
                          /\ Return0
                     ELSE /\ stdout' = Append(stdout, stage)
                          /\ Exit1
    /\ UNCHANGED inputs
    /\ UNCHANGED << special_tokens, vocab_scores, engine, smp_added_tokens,
                    added_arg, attach_log, returned, merges,
                    converted_tokenizer, output_dir, artifact, processed >>

\* Mutant of CheckType: the type is not looked at before loading.
CheckTypeAfterLoading ==
    /\ pc = "check_type"
    /\ pc' = "load"
    /\ UNCHANGED inputs
    /\ UNCHANGED << special_tokens, vocab_scores, engine, smp_added_tokens,
                    added_arg, attach_log, returned, merges,
                    converted_tokenizer, output_dir, artifact, stdout,
                    processed, ext, exit_code >>

\* convert.py:40-44  raise ValueError for a type that is not registered
CheckType ==
    /\ pc = "check_type"
    /\ IF converter_type \notin AvailableConverters
       THEN Raise(Exception("ValueError"))
       ELSE pc' = "load" /\ UNCHANGED exit_code
    /\ UNCHANGED inputs
    /\ UNCHANGED << special_tokens, vocab_scores, engine, smp_added_tokens,
                    added_arg, attach_log, returned, merges,
                    converted_tokenizer, output_dir, artifact, stdout,
                    processed, ext >>

\* convert.py:48-54  AutoTokenizer.from_pretrained, which may raise
LoadTokenizer ==
    /\ pc = "load"
    /\ \E ok \in Draw("from_pretrained") :
         /\ Called("from_pretrained", ok)
         /\ IF ok THEN pc' = "init" /\ UNCHANGED exit_code ELSE Exit1
    /\ UNCHANGED inputs
    /\ UNCHANGED << special_tokens, vocab_scores, engine, smp_added_tokens,
                    added_arg, attach_log, returned, merges,
                    converted_tokenizer, output_dir, artifact, stdout,
                    processed >>

\* convert.py:64  converter_class(tokenizer); BaichuanConverter.__init__
ConstructConverter ==
    /\ pc = "init"
    /\ special_tokens' = IF IsBaichuan
                         THEN InitSpecialTokens(original_tokenizer)
                         ELSE special_tokens
    /\ Called("converter_class", TRUE)
    /\ pc' = "vocab"
    /\ UNCHANGED inputs
    /\ UNCHANGED << vocab_scores, engine, smp_added_tokens,
                    added_arg, attach_log, returned, merges,
                    converted_tokenizer, output_dir, artifact, stdout,
                    processed, exit_code >>

\* tokenizer(): vocab_scores = self.vocab(proto)
BuildVocab ==
    /\ pc = "vocab"
    /\ vocab_scores' = IF IsBaichuan
                       THEN BaichuanVocab(original_tokenizer, proto.pieces)
                       ELSE InheritedVocab(proto.pieces)
    /\ pc' = "merges"
    /\ UNCHANGED inputs
    /\ UNCHANGED << special_tokens, engine, smp_added_tokens,
                    added_arg, attach_log, returned, merges,
                    converted_tokenizer, output_dir, artifact, stdout,
                    processed, exit_code, ext >>

\* A null token among the entries vocab() returned.
HasNullToken(vs) == \E k \in 1 .. Len(vs) : vs[k][1] = None

\* tokenizer(): _, merges = SpmExtractor(vocab_file).extract(vocab_scores);
\* the extractor is external and may raise, which convert.py:98-100 catches.
\* It takes the length of every token it is given, so it raises on a null
\* one.
ExtractMerges ==
    /\ pc = "merges"
    /\ \E ok \in Draw("extract") :
         /\ HasNullToken(vocab_scores) => ~ok
         /\ Called("extract", ok)
         /\ IF ok
            THEN /\ merges' = "extracted"
                 /\ pc' = "engine"
                 /\ UNCHANGED exit_code
            ELSE /\ Exit1
                 /\ UNCHANGED merges
    /\ UNCHANGED inputs
    /\ UNCHANGED << special_tokens, vocab_scores, engine, smp_added_tokens,
                    added_arg, attach_log, returned,
                    converted_tokenizer, output_dir, artifact, stdout,
                    processed >>

\* tokenizer(): Tokenizer(BPE(bpe_vocab, merges, unk_token=..., fuse_unk=True,
\* byte_fallback=self.handle_byte_fallback, dropout=None)).  Variant A calls
\* the inherited tokenizer(), which builds the same BPE engine from the
\* proto's own pieces.
NewEngine(vs, mg, unk) ==
    [ NoEngine EXCEPT !.exists = TRUE,
                      !.vocab = BpeVocab(vs),
                      !.merges = mg,
                      !.unk_token = unk,
                      !.fuse_unk = TRUE,
                      !.byte_fallback = HandleByteFallback ]

CreateEngine ==
    /\ pc = "engine"
    /\ engine' = NewEngine(vocab_scores, merges, proto.unk_piece)
    /\ attach_log' = Append(attach_log, "engine")
    /\ pc' = "add_tokens"
    /\ UNCHANGED inputs
    /\ UNCHANGED << special_tokens, vocab_scores, smp_added_tokens,
                    added_arg, returned, merges,
                    converted_tokenizer, output_dir, artifact, stdout,
                    processed, exit_code, ext >>

\* The engine's add_tokens, one AddedToken after the other: a content the
\* engine has registered already is ignored; a content the vocabulary
\* table holds keeps the table's id; any other content gets the next free id
\* at or above the table's size.
NextFreeId(vocab, added) ==
    LET size == Cardinality(DOMAIN vocab)
        ids == { added[k].id : k \in 1 .. Len(added) }
    IN  IF ids # {} /\ SetMax(ids) >= size THEN SetMax(ids) + 1 ELSE size

RECURSIVE EngineAddTokens(_, _, _)
EngineAddTokens(vocab, added, arg) ==
    IF arg = << >> THEN added
    ELSE LET t == Head(arg)
             known == \E k \in 1 .. Len(added) : added[k].content = t.content
             new_id == IF t.content \in DOMAIN vocab
                       THEN vocab[t.content]
                       ELSE NextFreeId(vocab, added)
         IN  IF known
             THEN EngineAddTokens(vocab, added, Tail(arg))
             ELSE EngineAddTokens(vocab,
                      Append(added, [ content |-> t.content, id |-> new_id,
                                      special |-> t.special,
                                      piece_id |-> t.id ]),
                      Tail(arg))

\* tokenizer(): smp_added_tokens, bad_added_tokens, tokenizer.add_tokens(...).
\* Variant A registers its added tokens in inherited code, which is not
\* modelled.
AddTokens ==
    /\ pc = "add_tokens"
    /\ IF IsBaichuan
       THEN /\ smp_added_tokens' = SmpAddedTokens(proto.pieces, special_tokens, 0)
            /\ added_arg' = AddTokensArg(original_tokenizer, smp_added_tokens')
            /\ engine' = [ engine EXCEPT !.added_tokens =
                             EngineAddTokens(engine.vocab, << >>, added_arg') ]
       ELSE UNCHANGED << smp_added_tokens, added_arg, engine >>
    /\ pc' = "normalizer"
    /\ UNCHANGED inputs
    /\ UNCHANGED << special_tokens, vocab_scores, attach_log, returned, merges,
                    converted_tokenizer, output_dir, artifact, stdout,
                    processed, exit_code, ext >>

\* converted(): normalizer = self.normalizer(self.proto);
\* if normalizer is not None: tokenizer.normalizer = normalizer
Normalizer == IF IsBaichuan THEN BaichuanNormalizer ELSE ErnieNormalizer

AttachNormalizer ==
    /\ pc = "normalizer"
    /\ IF Normalizer.kind # None
       THEN /\ engine' = [ engine EXCEPT !.normalizer = Normalizer ]
            /\ attach_log' = Append(attach_log, "normalizer")
       ELSE UNCHANGED << engine, attach_log >>
    /\ pc' = "pre_tokenizer"
    /\ UNCHANGED inputs
    /\ UNCHANGED << special_tokens, vocab_scores, smp_added_tokens,
                    added_arg, returned, merges,
                    converted_tokenizer, output_dir, artifact, stdout,
                    processed, exit_code, ext >>

\* converted(): replacement = "_" (U+2581 in the code)
Replacement == "_"

\* baichuan_converter.py:18, ernie4_5_converter.py:18  add_prefix_space = False
AddPrefixSpace == FALSE

PreTokenizer ==
    IF IsBaichuan THEN BaichuanPreTokenizer
    ELSE ErniePreTokenizer(Replacement, AddPrefixSpace, original_tokenizer)

\* converted(): if pre_tokenizer is not None: tokenizer.pre_tokenizer = ...
AttachPreTokenizer ==
    /\ pc = "pre_tokenizer"
    /\ IF PreTokenizer.kind # None
       THEN /\ engine' = [ engine EXCEPT !.pre_tokenizer = PreTokenizer ]
            /\ attach_log' = Append(attach_log, "pre_tokenizer")
       ELSE UNCHANGED << engine, attach_log >>
    /\ pc' = "decoder"
    /\ UNCHANGED inputs
    /\ UNCHANGED << special_tokens, vocab_scores, smp_added_tokens,
                    added_arg, returned, merges,
                    converted_tokenizer, output_dir, artifact, stdout,
                    processed, exit_code, ext >>

Decoder ==
    IF IsBaichuan THEN BaichuanDecoder
    ELSE ErnieDecoder(Replacement, AddPrefixSpace)

\* Mutant of AttachDecoder: the decoder is attached only if the variant has
\* a pre-tokenizer, as if it were one more optional stage.
AttachDecoderOptional ==
    /\ pc = "decoder"
    /\ IF PreTokenizer.kind # None
       THEN /\ engine' = [ engine EXCEPT !.decoder = Decoder ]
            /\ attach_log' = Append(attach_log, "decoder")
       ELSE UNCHANGED << engine, attach_log >>
    /\ pc' = "post_processor"
    /\ UNCHANGED inputs
    /\ UNCHANGED << special_tokens, vocab_scores, smp_added_tokens,
                    added_arg, returned, merges,
                    converted_tokenizer, output_dir, artifact, stdout,
                    processed, exit_code, ext >>

\* converted(): tokenizer.decoder = self.decoder(replacement, add_prefix_space)
AttachDecoder ==
    /\ pc = "decoder"
    /\ engine' = [ engine EXCEPT !.decoder = Decoder ]
    /\ attach_log' = Append(attach_log, "decoder")
    /\ pc' = "post_processor"
    /\ UNCHANGED inputs
    /\ UNCHANGED << special_tokens, vocab_scores, smp_added_tokens,
                    added_arg, returned, merges,
                    converted_tokenizer, output_dir, artifact, stdout,
                    processed, exit_code, ext >>

PostProcessor ==
    IF IsBaichuan THEN BaichuanPostProcessor
    ELSE ErniePostProcessor(original_tokenizer)

\* converted(): if post_processor: tokenizer.post_processor = post_processor
AttachPostProcessor ==
    /\ pc = "post_processor"
    /\ IF PostProcessor.kind # None
       THEN /\ engine' = [ engine EXCEPT !.post_processor = PostProcessor ]
            /\ attach_log' = Append(attach_log, "post_processor")
       ELSE UNCHANGED << engine, attach_log >>
    /\ pc' = "return"
    /\ UNCHANGED inputs
    /\ UNCHANGED << special_tokens, vocab_scores, smp_added_tokens,
                    added_arg, returned, merges,
                    converted_tokenizer, output_dir, artifact, stdout,
                    processed, exit_code, ext >>

\* converted(): return tokenizer
ReturnEngine ==
    /\ pc = "return"
    /\ returned' = TRUE
    /\ pc' = "wrap"
    /\ UNCHANGED inputs
    /\ UNCHANGED << special_tokens, vocab_scores, engine, smp_added_tokens,
                    added_arg, attach_log, merges,
                    converted_tokenizer, output_dir, artifact, stdout,
                    processed, exit_code, ext >>

\* convert.py:75-82  the special tokens the wrapper is given, in the order
\* it lists them (all_special_tokens_extended): the seven named tokens, then
\* the additional ones; None values are not special tokens.  The wrapper
\* hands each to its engine as AddedToken(token, special=True); it has no
\* source piece (id -1).
AllSpecialTokens(ot) ==
    LET named == << ot.bos_token, ot.eos_token, ot.unk_token, ot.sep_token,
                    ot.pad_token, ot.cls_token, ot.mask_token >>
                 \o ot.additional_special_tokens
        given == SelectSeq(named, LAMBDA t : t # None)
    IN  [ k \in 1 .. Len(given) |->
            [ id |-> -1, content |-> given[k], normalized |-> FALSE,
              special |-> TRUE ] ]

\* convert.py:68-84  PreTrainedTokenizerFast(tokenizer_object=..., bos_token=
\* tokenizer.bos_token, ...), which may raise.  The wrapper keeps its own
\* copy of the engine it is given (copy.deepcopy(tokenizer_object)) as its
\* backend and registers on it, through add_tokens, every special token that
\* is not among the backend's added tokens yet.
Wrapped(ot, eng) ==
    [ wrapped |-> TRUE,
      backend |-> [ eng EXCEPT !.added_tokens =
                      EngineAddTokens(eng.vocab, eng.added_tokens,
                                      AllSpecialTokens(ot)) ],
      bos_token |-> ot.bos_token, eos_token |-> ot.eos_token,
      unk_token |-> ot.unk_token, sep_token |-> ot.sep_token,
      pad_token |-> ot.pad_token, cls_token |-> ot.cls_token,
      mask_token |-> ot.mask_token ]

WrapFast ==
    /\ pc = "wrap"
    /\ \E ok \in Draw("PreTrainedTokenizerFast") :
         /\ Called("PreTrainedTokenizerFast", ok)
         /\ IF ok
            THEN /\ converted_tokenizer' = Wrapped(original_tokenizer, engine)
                 /\ pc' = "vocab_size"
                 /\ UNCHANGED exit_code
            ELSE /\ Exit1
                 /\ UNCHANGED converted_tokenizer
    /\ UNCHANGED inputs
    /\ UNCHANGED << special_tokens, vocab_scores, engine, smp_added_tokens,
                    added_arg, attach_log, returned, merges,
                    output_dir, artifact, stdout, processed >>

\* Mutant of SetVocabSize: the vocabulary table is cut down to the ids
\* below the requested size.
SetVocabSizeTruncating ==
    /\ pc = "vocab_size"
    /\ IF argv.vocab_size # -1
       THEN /\ stdout' = Append(stdout, [ line |-> "Setting vocabulary size",
                                          name |-> None ])
            /\ converted_tokenizer' =
                 [ converted_tokenizer EXCEPT !.backend.vocab =
                     LET vocab == converted_tokenizer.backend.vocab
                     IN  [ w \in { x \in DOMAIN vocab :
                                     vocab[x] < argv.vocab_size }
                           |-> vocab[w] ] ]
       ELSE UNCHANGED << stdout, converted_tokenizer >>
    /\ pc' = "mkdir"
    /\ UNCHANGED inputs
    /\ UNCHANGED << special_tokens, vocab_scores, engine, smp_added_tokens,
                    added_arg, attach_log, returned, merges,
                    output_dir, artifact,
                    processed, exit_code, ext >>

\* convert.py:86-89  if vocab_size is not None: print(...)
SetVocabSize ==
    /\ pc = "vocab_size"
    /\ IF argv.vocab_size # -1
       THEN stdout' = Append(stdout, [ line |-> "Setting vocabulary size",
                                       name |-> None ])
       ELSE UNCHANGED stdout
    /\ pc' = "mkdir"
    /\ UNCHANGED inputs
    /\ UNCHANGED << special_tokens, vocab_scores, engine, smp_added_tokens,
                    added_arg, attach_log, returned, merges,
                    converted_tokenizer, output_dir, artifact,
                    processed, exit_code, ext >>

\* convert.py:92-93  output_dir.mkdir(parents=True, exist_ok=True)
MakeOutputDir ==
    /\ pc = "mkdir"
    /\ \E ok \in Draw("mkdir") :
         /\ Called("mkdir", ok)
         /\ IF ok
            THEN /\ output_dir' = "created"
                 /\ pc' = "save"
                 /\ UNCHANGED exit_code
            ELSE /\ Exit1
                 /\ UNCHANGED output_dir
    /\ UNCHANGED inputs
    /\ UNCHANGED << special_tokens, vocab_scores, engine, smp_added_tokens,
                    added_arg, attach_log, returned, merges,
                    converted_tokenizer, artifact, stdout, processed >>

\* convert.py:95-100  converted_tokenizer.save_pretrained(str(output_dir))
\* writes the wrapper's backend and the wrapper's configuration;
\* when it raises, the directory made at 92-93 stays, with the files written
\* before the failure ("partial") or with none ("created").
SavePretrained ==
    /\ pc = "save"
    /\ \E ok \in Draw("save_pretrained") :
         IF ok
         THEN /\ Called("save_pretrained", ok)
              /\ output_dir' = "saved"
              /\ artifact' = [ saved |-> TRUE,
                               tokenizer |-> converted_tokenizer.backend,
                               config |-> converted_tokenizer ]
              /\ Return0
         ELSE \E wrote \in Draw("wrote_some_files") :
                /\ ext' = ext @@ ("save_pretrained" :> ok)
                              @@ ("wrote_some_files" :> wrote)
                /\ output_dir' = IF wrote THEN "partial" ELSE "created"
                /\ Exit1
                /\ UNCHANGED artifact
    /\ UNCHANGED inputs
    /\ UNCHANGED << special_tokens, vocab_scores, engine, smp_added_tokens,
                    added_arg, attach_log, returned, merges,
                    converted_tokenizer, stdout, processed >>

\* The content ids the engine hands to its post-processor.
ContentIds == { << >>, << 4 >>, << 3, 4 >> }

\* The id the template's special_tokens list gives a token.
SpecialId(specials, token) ==
    specials[CHOOSE k \in 1 .. Len(specials) : specials[k][1] = token][2]

\* TemplateProcessing: $A and $B stand for the content of the first and of
\* the second sequence, every other item for the id of that special token.
RECURSIVE ApplyTemplate(_, _, _, _)
ApplyTemplate(template, specials, a, b) ==
    IF template = << >> THEN << >>
    ELSE LET item == Head(template)
             ids == IF item = "$A" THEN a
                    ELSE IF item = "$B" THEN b
                    ELSE << SpecialId(specials, item) >>
         IN  ids \o ApplyTemplate(Tail(template), specials, a, b)

\* The converted tokenizer post-processes one sequence or a pair
\* (tests/test_ernie4_5_converter.py:193-199 encodes the empty string).
PostProcess ==
    /\ pc = "done"
    /\ argv.subcommand = "convert"
    /\ converted_tokenizer.backend.post_processor.kind = "TemplateProcessing"
    /\ \E a \in ContentIds, b \in ContentIds, pair \in BOOLEAN :
         /\ ~pair => b = << >>
         /\ processed' =
              [ done |-> TRUE, pair |-> pair, a |-> a, b |-> b,
                ids |-> LET post == converted_tokenizer.backend.post_processor
                        IN  ApplyTemplate(IF pair THEN post.pair
                                          ELSE post.single,
                                          post.special_tokens, a, b) ]
    /\ pc' = "encoded"
    /\ UNCHANGED inputs
    /\ UNCHANGED << special_tokens, vocab_scores, engine, smp_added_tokens,
                    added_arg, attach_log, returned, merges,
                    converted_tokenizer, output_dir, artifact, stdout,
                    exit_code, ext >>

\* The same request again with another --vocab-size, on the same source and
\* in the same environment: the first run's result is kept for comparison.
SecondRun ==
    /\ run = 1
    /\ pc \in { "exit", "done" }
    /\ \E vs \in VocabSizes \ { argv.vocab_size } :
         argv' = [ argv EXCEPT !.vocab_size = vs ]
    /\ run' = 2
    /\ first_run' = [ exit_code |-> exit_code, output_dir |-> output_dir,
                      artifact |-> artifact, ext |-> ext ]
    /\ pc' = StartPc(argv)
    /\ special_tokens' = {}
    /\ vocab_scores' = << >>
    /\ merges' = None
    /\ engine' = NoEngine
    /\ smp_added_tokens' = << >>
    /\ added_arg' = << >>
    /\ attach_log' = << >>
    /\ returned' = FALSE
    /\ converted_tokenizer' = NoConvertedTokenizer
    /\ output_dir' = "absent"
    /\ artifact' = NoArtifact
    /\ exit_code' = None
    /\ ext' = NoCalls
    /\ stdout' = << >>
    /\ processed' = NotProcessed
    /\ UNCHANGED << converter_type, proto, original_tokenizer >>

Next ==
    \/ Main
    \/ ParseArgs
    \/ ListConverters
    \/ ValidateLoad
    \/ ValidateFunctionality
    \/ ValidateFileStructure
    \/ CheckType
    \/ LoadTokenizer
    \/ ConstructConverter
    \/ BuildVocab
    \/ ExtractMerges
    \/ CreateEngine
    \/ AddTokens
    \/ AttachNormalizer
    \/ AttachPreTokenizer
    \/ AttachDecoder
    \/ AttachPostProcessor
    \/ ReturnEngine
    \/ WrapFast
    \/ SetVocabSize
    \/ MakeOutputDir
    \/ SavePretrained
    \/ PostProcess
    \/ SecondRun

Spec == Init /\ [][Next]_vars

\* ------------------------------------------------ the converted tokenizer

\* converted_tokenizer.<name>_token_id: the backend looks the token text up
\* among its added tokens, then in the token-to-id table it was given
\* (test_ernie4_5_converter.py:269); -1 stands for a token it does not hold.
ConvertedTokenId(eng, token) ==
    LET hits == { k \in 1 .. Len(eng.added_tokens) :
                    eng.added_tokens[k].content = token }
    IN  IF hits # {} THEN eng.added_tokens[CHOOSE k \in hits : TRUE].id
        ELSE IF token \in DOMAIN eng.vocab THEN eng.vocab[token]
        ELSE -1

\* converted_tokenizer.vocab_size: the size of the engine's token-to-id table
\* (test_ernie4_5_converter.py:252).
ConvertedVocabSize(eng) == Cardinality(DOMAIN eng.vocab)

\* ----------------------------------------------------------------- claims

IsConvert == argv.subcommand = "convert"

AfterVocab ==
    /\ IsConvert
    /\ pc \in { "merges", "engine", "add_tokens", "normalizer",
                "pre_tokenizer", "decoder", "post_processor", "return",
                "wrap", "vocab_size", "mkdir", "save", "done", "encoded" }

AfterAddTokens ==
    /\ IsConvert
    /\ pc \in { "normalizer", "pre_tokenizer", "decoder", "post_processor",
                "return", "wrap", "vocab_size", "mkdir", "save", "done",
                "encoded" }

NumPieces == Len(proto.pieces)

\* C3: the vocabulary sequence BaichuanConverter.vocab builds has one entry
\* per source piece, and entry i is (original id_to_token(i), score_i) with
\* score_i = 0.0 for i < 4 whatever the source score, and the score of source
\* piece i for i >= 4.
C3_VocabEntries ==
    (IsBaichuan /\ AfterVocab) =>
        /\ Len(vocab_scores) = NumPieces
        /\ \A i \in 0 .. (NumPieces - 1) :
             /\ vocab_scores[i + 1][1] = original_tokenizer.id_to_token[i + 1]
             /\ vocab_scores[i + 1][2] =
                  IF i < 4 THEN 0 ELSE proto.pieces[i + 1].score

\* C3 witness: a built vocabulary where a source piece below index 4 has a
\* non-zero score, a piece at index 4 or above has a non-zero score, and the
\* adapter's token for some index is not the piece's own text.
C3_Witness ==
    /\ IsBaichuan /\ AfterVocab
    /\ \E i \in 0 .. (NumPieces - 1) : i < 4 /\ proto.pieces[i + 1].score # 0
    /\ \E i \in 0 .. (NumPieces - 1) :
         i >= 4 /\ proto.pieces[i + 1].score # 0 /\ vocab_scores[i + 1][2] # 0
    /\ \E i \in 0 .. (NumPieces - 1) :
         original_tokenizer.id_to_token[i + 1] # proto.pieces[i + 1].piece

\* C4: position equals token id: for every index i of the vocabulary
\* sequence, the token-to-id table handed to the engine maps the token at
\* position i to id i, and that token is the original id_to_token(i), also
\* when the adapter returns the same token for two indices.
C4_PositionIsId ==
    (IsBaichuan /\ engine.exists) =>
        \A i \in 0 .. (Len(vocab_scores) - 1) :
            /\ vocab_scores[i + 1][1] = original_tokenizer.id_to_token[i + 1]
            /\ vocab_scores[i + 1][1] \in DOMAIN engine.vocab
            /\ engine.vocab[vocab_scores[i + 1][1]] = i

\* The tracked special-token set as the claims state it: the non-null values
\* among the adapter's bos, eos, unk and pad tokens and its additional
\* special tokens.
ClaimedTracked ==
    ({ original_tokenizer.bos_token, original_tokenizer.eos_token,
       original_tokenizer.unk_token, original_tokenizer.pad_token }
     \cup SeqRange(original_tokenizer.additional_special_tokens)) \ { None }

\* The added-token candidates as the claims state them: the indices of the
\* pieces that are control, or user defined, or whose text is tracked.
ClaimedCandidates ==
    { i \in 0 .. (NumPieces - 1) :
        \/ proto.pieces[i + 1].type = 3
        \/ proto.pieces[i + 1].type = 4
        \/ proto.pieces[i + 1].piece \in ClaimedTracked }

\* The converted tokenizer's added-token set: the contents of the added
\* tokens its backend holds.
AddedContents ==
    { converted_tokenizer.backend.added_tokens[k].content :
        k \in 1 .. Len(converted_tokenizer.backend.added_tokens) }

\* C5: in variant B a candidate whose piece text the original tokenizer does
\* not re-encode to exactly one id is absent from the converted tokenizer's
\* added-token set, and a candidate it re-encodes to exactly one id is
\* present.
C5_ExclusionRule ==
    (IsBaichuan /\ converted_tokenizer.wrapped) =>
        \A i \in ClaimedCandidates :
            LET text == proto.pieces[i + 1].piece
            IN  (text \in AddedContents)
                    <=> (original_tokenizer.encode_len[text] = 1)

\* C6: in variant B the candidate set is exactly the pieces that are control,
\* or user defined, or whose text is tracked; the tracked set is exactly the
\* non-null bos/eos/unk/pad tokens together with the additional special
\* tokens.
C6_CandidateSet ==
    (IsBaichuan /\ AfterAddTokens) =>
        /\ special_tokens = ClaimedTracked
        /\ { smp_added_tokens[k].id : k \in 1 .. Len(smp_added_tokens) }
             = ClaimedCandidates
        /\ Len(smp_added_tokens) = Cardinality(ClaimedCandidates)
        /\ \A k \in 1 .. Len(smp_added_tokens) :
             smp_added_tokens[k].token
                 = proto.pieces[smp_added_tokens[k].id + 1].piece

\* C6 witness: candidates of all three kinds and a piece that is none, with
\* a null named token dropped and an additional special token tracked.
C6_Witness ==
    /\ IsBaichuan /\ AfterAddTokens
    /\ original_tokenizer.pad_token = None
    /\ original_tokenizer.additional_special_tokens # << >>
    /\ \E k \in 1 .. Len(smp_added_tokens) :
         /\ proto.pieces[smp_added_tokens[k].id + 1].type = 3
         /\ smp_added_tokens[k].token \notin special_tokens
    /\ \E k \in 1 .. Len(smp_added_tokens) :
         /\ proto.pieces[smp_added_tokens[k].id + 1].type = 4
         /\ smp_added_tokens[k].token \notin special_tokens
    /\ \E k \in 1 .. Len(smp_added_tokens) :
         /\ proto.pieces[smp_added_tokens[k].id + 1].type = 1
         /\ smp_added_tokens[k].token
              \in SeqRange(original_tokenizer.additional_special_tokens)
    /\ Len(smp_added_tokens) < NumPieces

\* C7: in variant B the surviving candidates are handed to the engine in
\* strictly ascending piece-id order, each with normalized = true and with
\* special = true exactly when the piece is control or its text is tracked.
C7_AddedOrderAndFlags ==
    (IsBaichuan /\ AfterAddTokens) =>
        /\ \A k \in 1 .. Len(added_arg) : \A l \in 1 .. Len(added_arg) :
             k < l => added_arg[k].id < added_arg[l].id
        /\ \A k \in 1 .. Len(added_arg) :
             LET p == proto.pieces[added_arg[k].id + 1]
             IN  /\ added_arg[k].id \in ClaimedCandidates
                 /\ added_arg[k].content = p.piece
                 /\ added_arg[k].normalized = TRUE
                 /\ added_arg[k].special
                      <=> (p.type = 3 \/ p.piece \in ClaimedTracked)

\* C7 witness: at least two added tokens, one of them a user-defined piece
\* outside the tracked set added with special = false, one with special =
\* true.
C7_Witness ==
    /\ IsBaichuan /\ AfterAddTokens
    /\ Len(added_arg) >= 2
    /\ \E k \in 1 .. Len(added_arg) :
         /\ proto.pieces[added_arg[k].id + 1].type = 4
         /\ added_arg[k].content \notin ClaimedTracked
         /\ added_arg[k].special = FALSE
    /\ \E k \in 1 .. Len(added_arg) : added_arg[k].special = TRUE

NamedTokens ==
    { "bos_token", "eos_token", "unk_token", "sep_token", "pad_token",
      "cls_token", "mask_token" }

\* C8: for each of bos, eos, unk, sep, pad, cls and mask whose id on the
\* original tokenizer is non-null, the converted tokenizer reports the same
\* id.
C8_SpecialTokenIdParity ==
    converted_tokenizer.wrapped =>
        \A name \in NamedTokens :
            OriginalTokenId(original_tokenizer, original_tokenizer[name]) # -1
                => ConvertedTokenId(converted_tokenizer.backend,
                                    converted_tokenizer[name])
                     = OriginalTokenId(original_tokenizer,
                                       original_tokenizer[name])

\* C9: the vocabulary size of the converted tokenizer equals the vocabulary
\* size of the original tokenizer.
C9_VocabSizeParity ==
    converted_tokenizer.wrapped =>
        ConvertedVocabSize(converted_tokenizer.backend)
            = original_tokenizer.vocab_size

\* The stages converted() attaches, in the order the spec gives; a stage in
\* brackets is attached only when the variant has one.
StageIf(stage, name) == IF stage.kind # None THEN << name >> ELSE << >>

IsPrefix(s, t) == Len(s) <= Len(t) /\ s = SubSeq(t, 1, Len(s))

\* C10 as stated: engine, normalizer, [pre-tokenizer], decoder,
\* [post-processor]: the normalizer is attached in every assembly.
C10_OrderAsStated ==
    returned =>
        attach_log = << "engine", "normalizer" >>
                     \o StageIf(PreTokenizer, "pre_tokenizer")
                     \o << "decoder" >>
                     \o StageIf(PostProcessor, "post_processor")

\* C10 as amended: engine, [normalizer], [pre-tokenizer], decoder,
\* [post-processor].
AssemblyOrder ==
    << "engine" >>
    \o StageIf(Normalizer, "normalizer")
    \o StageIf(PreTokenizer, "pre_tokenizer")
    \o << "decoder" >>
    \o StageIf(PostProcessor, "post_processor")

\* C10 (amended): assembly is a strict linear sequence: vocabulary and merges
\* are built before the base engine, the engine is constructed with byte
\* fallback and unknown-token fusion enabled, then the normalizer,
\* pre-tokenizer and post-processor are attached only if non-null and the
\* decoder always, in the order normalizer, pre-tokenizer, decoder,
\* post-processor; nothing is attached before the engine exists or out of
\* this order, and the returned engine has all its stages and a decoder.
C10_LinearAssembly ==
    /\ IsPrefix(attach_log, AssemblyOrder)
    /\ (attach_log # << >>) => engine.exists
    /\ engine.exists =>
         /\ Len(vocab_scores) = NumPieces
         /\ merges # None
         /\ engine.merges = merges
         /\ engine.byte_fallback
         /\ engine.fuse_unk
         /\ attach_log[1] = "engine"
    /\ returned =>
         /\ attach_log = AssemblyOrder
         /\ engine.exists
         /\ engine.decoder # << >>
         /\ engine.normalizer = Normalizer
         /\ engine.pre_tokenizer = PreTokenizer
         /\ engine.post_processor = PostProcessor

\* C10 witness: both a returned engine with a normalizer and neither
\* pre-tokenizer nor post-processor, and one with no normalizer but both, are
\* reached; the witness is the second.
C10_Witness ==
    /\ returned
    /\ attach_log =
         << "engine", "pre_tokenizer", "decoder", "post_processor" >>
    /\ engine.normalizer.kind = None

\* ------------------------------------------------- claims C11 .. C20

Terminated == pc \in { "exit", "done", "encoded" }

IsErnie == converter_type = "ernie4.5"

\* C11: variant A's post-processor wraps one sequence A as [BOS, CLS] + A +
\* [SEP] and a pair as [BOS, CLS] + A + [SEP] + B + [SEP], with the ids the
\* original adapter gives the three tokens; for empty content the output is
\* exactly [BOS, CLS, SEP].
C11_TemplateWrapping ==
    (IsErnie /\ processed.done) =>
        LET ot == original_tokenizer
            bos == OriginalTokenId(ot, ot.bos_token)
            cls == OriginalTokenId(ot, ot.cls_token)
            sep == OriginalTokenId(ot, ot.sep_token)
        IN  /\ bos # -1 /\ cls # -1 /\ sep # -1
            /\ processed.ids =
                 IF processed.pair
                 THEN << bos, cls >> \o processed.a \o << sep >>
                      \o processed.b \o << sep >>
                 ELSE << bos, cls >> \o processed.a \o << sep >>

\* The empty string: no content id, and the output is the three wrapper ids
\* of a source whose cls and sep tokens differ.
C11_Witness ==
    /\ IsErnie
    /\ processed.done
    /\ ~processed.pair
    /\ processed.a = << >>
    /\ Len(processed.ids) = 3
    /\ original_tokenizer.cls_token # original_tokenizer.sep_token

\* C12: the engine variant B returns has a normalizer replacing every space
\* with the glyph, no pre-tokenizer, no post-processor, and the decoder
\* Replace(glyph -> space), ByteFallback, Fuse in this order, whatever the
\* source and the adapter are.
C12_BaichuanStages ==
    (IsBaichuan /\ returned) =>
        /\ engine.normalizer =
             [ kind |-> "Replace", pattern |-> " ", content |-> "_" ]
        /\ engine.pre_tokenizer.kind = None
        /\ engine.post_processor.kind = None
        /\ Len(engine.decoder) = 3
        /\ engine.decoder[1] = Stage("Replace", "_", " ", 0)
        /\ engine.decoder[2].kind = "ByteFallback"
        /\ engine.decoder[3].kind = "Fuse"

\* A returned variant-B engine of a source whose adapter remaps an index and
\* one whose adapter has a pad token and a user-defined piece.
C12_Witness ==
    /\ IsBaichuan
    /\ returned
    /\ \/ original_tokenizer.id_to_token
            # [ k \in 1 .. NumPieces |-> proto.pieces[k].piece ]
       \/ /\ original_tokenizer.pad_token # None
          /\ \E k \in 1 .. NumPieces : proto.pieces[k].type = TypeUserDefined
    /\ engine.decoder # << >>

\* C13: variant A's decoder is Replace, ByteFallback, Fuse followed
\* by a left-strip-one-space stage exactly when the source tokenizer adds a
\* prefix space, and the metaspace pre-tokenizer's prepend scheme is the one
\* derived from that attribute of the adapter, with splitting disabled.
C13_PrefixSpaceFollowsAdapter ==
    (IsErnie /\ returned) =>
        LET ot == original_tokenizer
        IN  /\ SubSeq(engine.decoder, 1, 3)
                 = << Stage("Replace", "_", " ", 0),
                      Stage("ByteFallback", None, None, 0),
                      Stage("Fuse", None, None, 0) >>
            /\ IF ot.add_prefix_space
               THEN /\ Len(engine.decoder) = 4
                    /\ engine.decoder[4] = Stage("Strip", None, " ", 1)
               ELSE Len(engine.decoder) = 3
            /\ engine.pre_tokenizer.kind = "Metaspace"
            /\ engine.pre_tokenizer.prepend_scheme
                 = GetPrependScheme(ot.add_prefix_space, ot)
            /\ engine.pre_tokenizer.split = FALSE

\* C14: a convert request whose converter type is not registered is rejected
\* before any loading: the loader is never invoked, no converter is
\* constructed, no output directory or file is created, and the request
\* never succeeds.
C14_RejectedBeforeLoading ==
    (IsConvert /\ converter_type \notin AvailableConverters) =>
        /\ "from_pretrained" \notin DOMAIN ext
        /\ "converter_class" \notin DOMAIN ext
        /\ "mkdir" \notin DOMAIN ext
        /\ output_dir = "absent"
        /\ ~artifact.saved
        /\ ~engine.exists
        /\ pc \in { "main", "args", "check_type", "exit" }
        /\ (pc = "exit" /\ argv.args \in { "ok", "help_after_type" })
             => exit_code \in { 1, 2 }

\* convert_tokenizer itself has rejected an unregistered type.
C14_Witness ==
    /\ IsConvert
    /\ converter_type \notin AvailableConverters
    /\ argv.entry = "call"
    /\ pc = "exit"
    /\ exit_code = 1

\* C15: after a convert invocation that fails, the output location is as it
\* was before the invocation; an output directory exists as its result only
\* if the complete artifact was saved.
C15_AllOrNothing ==
    (IsConvert /\ Terminated) =>
        /\ exit_code # 0 => output_dir = "absent"
        /\ output_dir # "absent" => artifact.saved

\* What the exit code follows from: the command line and the answers of the
\* external calls.
SomeCallFailed ==
    \E c \in DOMAIN ext \ { "wrote_some_files" } : ~ext[c]

ExpectedExitCode ==
    IF argv.subcommand \notin Subcommands THEN 1
    ELSE IF "import_module" \in DOMAIN ext /\ ~ext["import_module"] THEN 1
    ELSE IF argv.args = "help" THEN 0
    ELSE IF argv.args = "invalid" THEN 2
    ELSE IF IsConvert /\ converter_type \notin AvailableConverters THEN 2
    ELSE IF argv.args = "help_after_type" THEN 0
    ELSE IF SomeCallFailed THEN 1
    ELSE 0

\* C16: every command-line invocation ends with exit code 0 on success, 1 on
\* a handled error (no or unknown subcommand, a failing load, conversion or
\* validation, a validate path that does not exist, an exception inside a
\* subcommand) and 2 when the argument parser rejects the arguments; the
\* dispatcher never replaces an exit code raised inside a subcommand.
C16_ExitCodes ==
    (argv.entry = "cli" /\ Terminated) =>
        /\ exit_code \in { 0, 1, 2 }
        /\ exit_code = ExpectedExitCode
        /\ pc \in { "done", "encoded" } => exit_code = 0

\* The argument parser of a subcommand has rejected the arguments, and the
\* process ends with its 2.
C16_Witness ==
    /\ argv.entry = "cli"
    /\ argv.subcommand = "validate"
    /\ argv.args = "invalid"
    /\ pc = "exit"
    /\ exit_code = 2

\* A null or a repeated token among the adapter's tokens for the piece
\* indices.
Malformed(ot, n) ==
    \/ \E k \in 1 .. n : ot.id_to_token[k] = None
    \/ \E k \in 1 .. n, l \in 1 .. n :
         k # l /\ ot.id_to_token[k] = ot.id_to_token[l]

\* C17: when the adapter's id-to-token mapping is malformed (a null or a
\* repeated token for some index), variant B's vocabulary construction
\* raises and returns no vocabulary: no engine is built from it and the
\* invocation never succeeds.
C17_FailFast ==
    (IsBaichuan /\ IsConvert
       /\ Malformed(original_tokenizer, NumPieces)) =>
        /\ vocab_scores = << >>
        /\ ~engine.exists
        /\ pc # "done"

\* The names the list command has printed.
ListedNames == { stdout[k].name : k \in 1 .. Len(stdout) }

\* C18: the set of names the list command prints, in plain and in detailed
\* mode, is the set of converter types the convert command accepts.
C18_ListMatchesConvert ==
    (argv.subcommand = "list" /\ pc = "done") =>
        ListedNames = AvailableConverters

\* C19: of two convert invocations on the same source and in the same
\* environment that differ only in --vocab-size, the second ends with the
\* exit code, the output directory and the saved artifact of the first.
C19_VocabSizeNoOp ==
    (run = 2 /\ Terminated) =>
        /\ exit_code = first_run.exit_code
        /\ output_dir = first_run.output_dir
        /\ artifact = first_run.artifact

\* Both runs have saved an artifact, the second with a --vocab-size below
\* the number of vocabulary entries.
C19_Witness ==
    /\ run = 2
    /\ pc = "done"
    /\ argv.vocab_size = 3
    /\ ConvertedVocabSize(converted_tokenizer.backend) > 3
    /\ artifact.saved
    /\ first_run.artifact.saved

\* C20: every added token registered on variant B's engine has the
\* id of its source piece index, its text is the vocabulary entry at that
\* index, and its id is below the vocabulary size.
C20_AddedIdIsPieceIndex ==
    (IsBaichuan /\ AfterAddTokens) =>
        \A k \in 1 .. Len(engine.added_tokens) :
            LET t == engine.added_tokens[k]
            IN  /\ t.id = t.piece_id
                /\ t.content = vocab_scores[t.piece_id + 1][1]
                /\ t.id < ConvertedVocabSize(engine)

\* ----------------------------------------------------------- claim C21

IsValidate == argv.subcommand = "validate"

\* The names of the stages the validate command has run, in order.
StagesRun ==
    LET stages == SelectSeq(stdout, LAMBDA l : l.line = "stage")
    IN  [ k \in 1 .. Len(stages) |-> stages[k].name ]

Printed(line, name) ==
    \E k \in 1 .. Len(stdout) :
        stdout[k].line = line /\ stdout[k].name = name

ExtIs(call, ok) == call \in DOMAIN ext /\ ext[call] = ok

\* The stages a finished validate run has run: none before the tokenizer is
\* loaded; then basic, functionality unless --basic-only, and file structure
\* unless --skip-file-structure or the functionality stage failed.
StagesExpected ==
    IF ~ExtIs("load_tokenizer", TRUE) THEN << >>
    ELSE << "basic" >>
         \o (IF argv.basic_only THEN << >> ELSE << "functionality" >>)
         \o (IF \/ argv.skip_file_structure
                \/ ExtIs("encode_decode", FALSE)
             THEN << >> ELSE << "file_structure" >>)

\* C21: in the validate command a failed round-trip consistency check never
\* changes the outcome: the functionality stage fails (exit code 1) only
\* when encode or decode raises, and otherwise validate goes on to the
\* remaining stages, prints that all checks passed and exits with 0 unless
\* the file-structure stage fails; the stages run in the order basic,
\* functionality (skipped with --basic-only), file structure (skipped with
\* --skip-file-structure), and no stage runs after a failed one.
C21_RoundTripNeverFails ==
    (IsValidate /\ argv.args = "ok") =>
        /\ IsPrefix(StagesRun, << "basic", "functionality", "file_structure" >>)
           \/ IsPrefix(StagesRun, << "basic", "file_structure" >>)
        /\ Terminated =>
             /\ StagesRun = StagesExpected
             /\ exit_code = 1 <=>
                  \/ ExtIs("import_module", FALSE)
                  \/ ExtIs("path_exists", FALSE)
                  \/ ExtIs("load_tokenizer", FALSE)
                  \/ ExtIs("encode_decode", FALSE)
                  \/ ExtIs("json_load", FALSE)
             /\ exit_code = 0 <=> pc = "done"
             /\ pc = "done" <=> Printed("all checks passed", None)
             /\ pc = "done" => stdout[Len(stdout)] = AllChecksPassed
             /\ Printed("error", None) <=> ExtIs("encode_decode", FALSE)

\* A validate run in which a round-trip check failed and none raised: all
\* three stages have run, "all checks passed" is printed and the exit code
\* is 0.
C21_Witness ==
    /\ IsValidate
    /\ pc = "done"
    /\ exit_code = 0
    /\ Printed("round-trip", "failed")
    /\ StagesRun = << "basic", "functionality", "file_structure" >>
    /\ Printed("all checks passed", None)


====
